---- MODULE Spec2Model ----
(***************************************************************************)
(* Model of the Fortran dependency scanner, SCons.Scanner.Fortran.scan     *)
(* (src/src/engine/SCons/Scanner/Fortran.py).                              *)
(*                                                                         *)
(* State: a small file system (one Fortran source and a few include files  *)
(* in three directories), the per-node caches node.includes and            *)
(* node.found_includes, the per-target cache target.f77path, and history   *)
(* variables that record what the most recent call of scan did.            *)
(***************************************************************************)
EXTENDS Integers, Sequences, FiniteSets, TLC

VARIABLES
    contents,        \* contents[n]: None, or Some(text) of source node n
    files,           \* the include-file nodes that exist on storage
    includes,        \* includes[n]: node.includes, None or Some(list)
    found_includes,  \* found_includes[n]: node.found_includes, f77path -> list
    f77path,         \* f77path[t]: target.f77path, None until first set
    last,            \* history: what the most recent step did
    hist,            \* history: hist[n][p], the previous scan of n under the
                     \* configured directory list p
    drv,             \* the recursive scan request in progress, if any
    wk               \* wk[w]: the locals of worker w inside scan, when two
                     \* workers run scan at once

vars == <<contents, files, includes, found_includes, f77path, last, hist, drv, wk>>

----------------------------------------------------------------------------
(* Bounds and the universe of the model *)

\* longest text of a source file, in statements
MaxIncludes == 2

\* deepest nesting of a recursive scan request the model follows
MaxDepth == 6

\* Python's None and a present value
None == <<>>
Some(x) == <<x>>

Dirs == {"d0", "d1", "d2"}

\* the raw reference strings an INCLUDE statement can carry
Refs == {"a.inc", "B.inc"}

\* a statement of a source text: an upper-case INCLUDE, or a lower-case one
Lines == [kw : {"INCLUDE"}, arg : Refs] \cup {[kw |-> "include", arg |-> "a.inc"]}

RECURSIVE SeqsUpTo(_, _)
SeqsUpTo(S, n) ==
    IF n = 0 THEN {<<>>}
    ELSE LET shorter == SeqsUpTo(S, n - 1)
         IN shorter \cup {Append(s, x) : s \in {q \in shorter : Len(q) = n - 1}, x \in S}

Texts == SeqsUpTo(Lines, MaxIncludes)

\* file nodes: the scanned source and the include files it can refer to
File(d, nm) == [dir |-> d, name |-> nm]
Sources == {File("d0", "main.f")}
IncFiles == {File(d, "a.inc") : d \in Dirs} \cup {File("d1", "B.inc")}

\* build targets and the F77PATH of each target's environment: every target
\* of the model configures one
Targets == {"t1", "t2", "t3"}
EnvHasF77PATH(t) == t \in Targets
EnvF77PATH(t) == IF t = "t3" THEN <<"d2", "d1">> ELSE <<"d1", "d2">>

----------------------------------------------------------------------------
(* The collaborators of scan: SCons.Node.FS and SCons.Util *)

\* node.rfile(): the node itself when no Repository is configured
rfile(node) == node

\* node.rexists()
rexists(node) ==
    IF node \in Sources THEN contents[node] # None ELSE node \in files

\* node.get_contents()
get_contents(node) == contents[node][1]

\* node.get_dir()
get_dir(node) == node.dir

\* fs.File(filename, dir): the node a reference names in a directory
FileIn(ref, dir) == File(dir, ref)

\* SCons.Node.FS.find_file(filename, paths, fs.File): the node in the first
\* directory of paths that holds the file, None when no directory does
RECURSIVE find_file(_, _)
find_file(filename, paths) ==
    IF paths = <<>> THEN None
    ELSE IF rexists(FileIn(filename, Head(paths)))
         THEN Some(FileIn(filename, Head(paths)))
         ELSE find_file(filename, Tail(paths))

\* str(node): the path, directory then name
str(node) == <<node.dir, node.name>>

\* upper-casing of a path component
Upper(s) ==
    CASE s = "a.inc" -> "A.INC"
      [] s = "B.inc" -> "B.INC"
      [] s = "main.f" -> "MAIN.F"
      [] s = "d0" -> "D0"
      [] s = "d1" -> "D1"
      [] s = "d2" -> "D2"
      [] OTHER -> s

\* SCons.Node.FS._my_normcase: case folding of a path
my_normcase(path) == <<Upper(path[1]), Upper(path[2])>>

\* the order of Python string comparison on the path components in use
Ord(s) ==
    CASE s = "A.INC" -> 1
      [] s = "B.INC" -> 2
      [] s = "B.inc" -> 3
      [] s = "D0" -> 4
      [] s = "D1" -> 5
      [] s = "D2" -> 6
      [] s = "MAIN.F" -> 7
      [] s = "a.inc" -> 8
      [] s = "d0" -> 9
      [] s = "d1" -> 10
      [] s = "d2" -> 11
      [] s = "main.f" -> 12

\* p < q for two paths (all directory names have the same length)
PathLess(p, q) ==
    \/ Ord(p[1]) < Ord(q[1])
    \/ p[1] = q[1] /\ Ord(p[2]) < Ord(q[2])

----------------------------------------------------------------------------
(* scan and its parts *)

\* include_re.findall(text): the argument of every upper-case INCLUDE
\* statement, in the order of the text
RECURSIVE include_re_findall(_)
include_re_findall(text) ==
    IF text = <<>> THEN <<>>
    ELSE IF Head(text).kw = "INCLUDE"
         THEN <<Head(text).arg>> \o include_re_findall(Tail(text))
         ELSE include_re_findall(Tail(text))

\* variant: the directory list put in a canonical order before it is kept
NewF77PathSorted(target) ==
    IF EnvHasF77PATH(target)
    THEN LET p == EnvF77PATH(target)
         IN IF Len(p) = 2 /\ Ord(p[2]) < Ord(p[1]) THEN <<p[2], p[1]>> ELSE p
    ELSE <<>>

\* tuple(fs.Rsearchall(mapPaths(env['F77PATH'], target.cwd))), or () on KeyError
NewF77Path(target) ==
    IF EnvHasF77PATH(target) THEN EnvF77PATH(target) ELSE <<>>

\* target.f77path after the hasattr test
TargetF77Path(target) ==
    IF f77path[target] # None THEN f77path[target][1] ELSE NewF77Path(target)

\* variant: rule 1 of the docstring, F77PATH before the source directory
SearchDirsPathFirst(node, path) == path \o <<get_dir(node)>>

\* the directories searched for an include: (source_dir,) + f77path
SearchDirs(node, path) == <<get_dir(node)>> \o path

\* variant of GetIncludes: the contents are scanned on every miss
GetIncludesRescan(node) ==
    [list |-> include_re_findall(get_contents(node)), read |-> TRUE]

\* the raw references of a cache miss: node.includes when it is cached,
\* else the references found in the contents, which are then read
GetIncludes(node) ==
    IF includes[node] # None
    THEN [list |-> includes[node][1], read |-> FALSE]
    ELSE [list |-> include_re_findall(get_contents(node)), read |-> TRUE]

IncludesUsed(node) == GetIncludes(node).list

\* variant: a node is appended only when it is not in the list yet
RECURSIVE FoundNodesUnique(_, _)
FoundNodesUnique(incs, dirs) ==
    IF incs = <<>> THEN <<>>
    ELSE LET n == find_file(Head(incs), dirs)
             rest == FoundNodesUnique(Tail(incs), dirs)
         IN IF n = None THEN rest
            ELSE <<n[1]>> \o SelectSeq(rest, LAMBDA m : m # n[1])

\* variant: the loop ends at the first reference that is not found
RECURSIVE FoundNodesStopAtMissing(_, _)
FoundNodesStopAtMissing(incs, dirs) ==
    IF incs = <<>> THEN <<>>
    ELSE LET n == find_file(Head(incs), dirs)
         IN IF n = None THEN <<>>
            ELSE <<n[1]>> \o FoundNodesStopAtMissing(Tail(incs), dirs)

\* the loop over includes: the nodes found, in the order of the references
RECURSIVE FoundNodes(_, _)
FoundNodes(incs, dirs) ==
    IF incs = <<>> THEN <<>>
    ELSE LET n == find_file(Head(incs), dirs)
         IN (IF n # None THEN <<n[1]>> ELSE <<>>) \o FoundNodes(Tail(incs), dirs)

\* the loop over includes: one warning for every reference not found
RECURSIVE Warned(_, _, _)
Warned(incs, dirs, node) ==
    IF incs = <<>> THEN <<>>
    ELSE LET n == find_file(Head(incs), dirs)
         IN (IF n = None THEN <<[include |-> Head(incs), from |-> node]>> ELSE <<>>)
            \o Warned(Tail(incs), dirs, node)

\* normalize(node)
normalize(node) == my_normcase(str(node))

\* comparison of the pairs (normalize(element), element) by paired.sort()
PairLess(a, b) ==
    \/ PathLess(normalize(a), normalize(b))
    \/ normalize(a) = normalize(b) /\ PathLess(str(a), str(b))

RECURSIVE Insert(_, _)
Insert(x, sorted) ==
    IF sorted = <<>> THEN <<x>>
    ELSE IF PairLess(Head(sorted), x)
         THEN <<Head(sorted)>> \o Insert(x, Tail(sorted))
         ELSE <<x>> \o sorted

\* variant: the list returned in the order of discovery
stUnsorted(List) == List

\* st(List, normalize): the list sorted on the normalized path
RECURSIVE st(_)
st(List) ==
    IF List = <<>> THEN <<>> ELSE Insert(Head(List), st(Tail(List)))

\* whether node.found_includes[f77path] raises no KeyError
CacheHit(node, path) == path \in DOMAIN found_includes[node]

\* variant: the cached list is never used, every call resolves again
NodesOfNoCache(node, path) ==
    IF rexists(node) THEN FoundNodes(GetIncludes(node).list, SearchDirs(node, path))
    ELSE <<>>

\* the list `nodes` after the try statement
NodesOf(node, path) ==
    IF CacheHit(node, path) THEN found_includes[node][path]
    ELSE IF rexists(node) THEN FoundNodes(IncludesUsed(node), SearchDirs(node, path))
         ELSE <<>>

\* node.includes after the call
IncludesAfter(node, path) ==
    IF ~CacheHit(node, path) /\ rexists(node)
    THEN Some(IncludesUsed(node))
    ELSE includes[node]

\* node.found_includes after the call
FoundIncludesAfter(node, path) ==
    IF CacheHit(node, path) THEN found_includes[node]
    ELSE (path :> NodesOf(node, path)) @@ found_includes[node]

\* the F77PATH directories of a target's environment, as configured
EnvPath(t) == IF EnvHasF77PATH(t) THEN EnvF77PATH(t) ELSE <<>>

\* the history entry of the previous scan of node under the directory list p
NoHist == [state |-> "never"]
HistOf(node, path) ==
    IF path \in DOMAIN hist[node] THEN hist[node][path] ELSE NoHist

\* scan(node, env, target)
Scan(n, target) ==
    LET node == rfile(n)
        path == TargetF77Path(target)
        hit == CacheHit(node, path)
        miss == ~hit
        resolved == miss /\ rexists(node)
        result == st(NodesOf(node, path))
    IN /\ f77path' = [f77path EXCEPT ![target] = Some(path)]
       /\ includes' = [includes EXCEPT ![node] = IncludesAfter(node, path)]
       /\ found_includes' = [found_includes EXCEPT ![node] = FoundIncludesAfter(node, path)]
       /\ last' = [kind |-> "scan", node |-> node, target |-> target, path |-> path,
                   hit |-> hit, existed |-> rexists(node),
                   read |-> resolved /\ GetIncludes(node).read,
                   result |-> result,
                   warnings |-> IF resolved
                                THEN Warned(IncludesUsed(node), SearchDirs(node, path), node)
                                ELSE <<>>,
                   preIncludes |-> includes[node],
                   preFound |-> found_includes[node],
                   prev |-> HistOf(node, EnvPath(target))]
       /\ hist' = [hist EXCEPT ![node] =
                      (EnvPath(target) :> [state |-> "fresh", result |-> result,
                                           absent |-> ~rexists(node), by |-> target])
                      @@ hist[node]]
       /\ UNCHANGED <<contents, files>>

----------------------------------------------------------------------------
(* The environment: the build writes files *)

NoCall == [kind |-> "env"]

\* the history of a node once its contents changed
Aged(h) ==
    [p \in DOMAIN h |->
        IF h[p].state = "fresh"
        THEN [state |-> "stale", absent |-> h[p].absent]
        ELSE h[p]]

\* variant: the build leaves node.includes in place
BuildKeepsIncludes(n, text) ==
    /\ contents[n] # Some(text)
    /\ contents' = [contents EXCEPT ![n] = Some(text)]
    /\ found_includes' = [found_includes EXCEPT ![n] = <<>>]
    /\ hist' = [hist EXCEPT ![n] = Aged(hist[n])]
    /\ last' = NoCall
    /\ UNCHANGED <<files, f77path, includes>>

\* variant: the build leaves node.found_includes in place
BuildKeepsFound(n, text) ==
    /\ contents[n] # Some(text)
    /\ contents' = [contents EXCEPT ![n] = Some(text)]
    /\ includes' = [includes EXCEPT ![n] = None]
    /\ hist' = [hist EXCEPT ![n] = Aged(hist[n])]
    /\ last' = NoCall
    /\ UNCHANGED <<files, f77path, found_includes>>

\* A source node is built: it is created, or its contents change.  The node
\* then drops the implicit-dependency caches scan keeps in it.
Build(n, text) ==
    /\ contents[n] # Some(text)
    /\ contents' = [contents EXCEPT ![n] = Some(text)]
    /\ includes' = [includes EXCEPT ![n] = None]
    /\ found_includes' = [found_includes EXCEPT ![n] = <<>>]
    /\ hist' = [hist EXCEPT ![n] = Aged(hist[n])]
    /\ last' = NoCall
    /\ UNCHANGED <<files, f77path>>

\* An include file comes into existence.
CreateFile(f) ==
    /\ f \notin files
    /\ files' = files \cup {f}
    /\ last' = NoCall
    /\ UNCHANGED <<contents, includes, found_includes, f77path, hist>>

----------------------------------------------------------------------------
(* The recursive scan driver: FortranScan wraps scan in a Recursive scanner, *)
(* which scans the nodes scan returns in turn, under the same target         *)

Idle == [phase |-> "idle"]

\* no worker is inside scan
NoWorkers == <<>>

AllNodes == Sources \cup IncFiles

\* the nodes of the request that are being visited: those on the stack
Visiting == {drv.stack[i].node : i \in DOMAIN drv.stack}

\* variant: no node is ever recognised as being visited
OnPathNever(c) == FALSE

\* whether the request is already visiting node c
OnPath(c) == c \in Visiting

Top == drv.stack[Len(drv.stack)]
Pop(stack) == SubSeq(stack, 1, Len(stack) - 1)
SetTopKids(stack, kids) == [stack EXCEPT ![Len(stack)].kids = kids]

\* a top-level request: scan the root and keep the nodes it returns to visit
Request(n, t) ==
    /\ drv.phase # "running"
    /\ Scan(n, t)
    /\ drv' = [phase |-> "running", root |-> n, target |-> t,
               stack |-> <<[node |-> n, kids |-> last'.result]>>,
               deps |-> {}, cut |-> FALSE]
    /\ UNCHANGED wk

\* recurse into the next node scan returned: it is a dependency, and it is
\* scanned under the same target
Descend ==
    /\ drv.phase = "running"
    /\ Top.kids # <<>>
    /\ ~OnPath(Head(Top.kids))
    /\ Len(drv.stack) < MaxDepth
    /\ Scan(Head(Top.kids), drv.target)
    /\ drv' = [drv EXCEPT
                  !.stack = Append(SetTopKids(drv.stack, Tail(Top.kids)),
                                   [node |-> Head(Top.kids), kids |-> last'.result]),
                  !.deps = @ \cup {Head(Top.kids)}]
    /\ UNCHANGED wk

\* the next node is being visited already: it is a dependency, the request
\* recurses no further along it and raises no error
Revisit ==
    /\ drv.phase = "running"
    /\ Top.kids # <<>>
    /\ OnPath(Head(Top.kids))
    /\ drv' = [drv EXCEPT !.stack = SetTopKids(drv.stack, Tail(Top.kids)),
                          !.deps = @ \cup {Head(Top.kids)},
                          !.cut = TRUE]
    /\ UNCHANGED <<contents, files, includes, found_includes, f77path, last, hist, wk>>

\* the nodes of the top frame are done: return to the including node, or
\* end the request with the dependencies gathered
Return ==
    /\ drv.phase = "running"
    /\ Top.kids = <<>>
    /\ drv' = [drv EXCEPT !.stack = Pop(drv.stack),
                          !.phase = IF Len(drv.stack) = 1 THEN "done" ELSE "running"]
    /\ UNCHANGED <<contents, files, includes, found_includes, f77path, last, hist, wk>>

\* the texts of the include files: INCLUDE statements only
IncTexts == SeqsUpTo([kw : {"INCLUDE"}, arg : Refs], MaxIncludes)

\* the nodes and targets requests are made for
Roots == {File("d0", "main.f"), File("d1", "a.inc")}
RequestTargets == {"t1", "t3"}

\* storage as a request finds it: the source includes a.inc, every a.inc
\* has one text and B.inc another, nothing is cached yet
InitCycle ==
    /\ \E ta \in IncTexts, tb \in IncTexts :
           contents = [n \in AllNodes |->
                          IF n \in Sources THEN Some(<<[kw |-> "INCLUDE", arg |-> "a.inc"]>>)
                          ELSE IF n.name = "a.inc" THEN Some(ta) ELSE Some(tb)]
    /\ files \in {IncFiles, {File("d1", "a.inc"), File("d1", "B.inc")}}
    /\ includes = [n \in AllNodes |-> None]
    /\ found_includes = [n \in AllNodes |-> <<>>]
    /\ f77path = [t \in Targets |-> None]
    /\ last = NoCall
    /\ hist = [n \in AllNodes |-> <<>>]
    /\ drv = Idle
    /\ wk = NoWorkers

NextCycle ==
    \/ \E n \in Roots, t \in RequestTargets : Request(n, t)
    \/ Descend
    \/ Revisit
    \/ Return

SpecCycle == InitCycle /\ [][NextCycle]_vars

----------------------------------------------------------------------------
(* Two workers inside scan at once: scan statement by statement.  Every     *)
(* step is one read or one assignment of a shared attribute (node.includes, *)
(* node.found_includes[f77path], target.f77path); the interpreter runs      *)
(* each of them as a whole.  The locals of a call are in wk[w].             *)

Workers == {1, 2}

\* the node both workers scan
RaceNode == rfile(File("d0", "main.f"))

\* the locals of worker w
Local(w) == wk[w]
PathOf(w) == wk[w].path[1]

\* a call of scan(node, env, target) that has just been entered: line 87,
\* nodes = []
Entered(t) ==
    [pc |-> "hasattr", target |-> t, path |-> None, incs |-> <<>>, i |-> 1,
     nodes |-> <<>>, warnings |-> <<>>, hit |-> FALSE, ret |-> None]

\* variant: the loop appends to the list the cache slot holds, when there
\* is one, instead of the list of its own call
LoopListShared(w) ==
    IF CacheHit(RaceNode, PathOf(w)) THEN found_includes[RaceNode][PathOf(w)]
    ELSE wk[w].nodes

\* the list the loop appends to: the local list `nodes` of the call
LoopList(w) == wk[w].nodes

\* hasattr(target, 'f77path'): the cached tuple is taken
WHasAttr(w) ==
    /\ wk[w].pc = "hasattr"
    /\ wk' = [wk EXCEPT ![w].pc = IF f77path[wk[w].target] # None
                                  THEN "lookup" ELSE "setpath",
                        ![w].path = f77path[wk[w].target]]
    /\ UNCHANGED <<contents, files, includes, found_includes, f77path, last, hist, drv>>

\* target.f77path = tuple(...) from env['F77PATH'], or () on KeyError
WSetPath(w) ==
    /\ wk[w].pc = "setpath"
    /\ f77path' = [f77path EXCEPT ![wk[w].target] = Some(NewF77Path(wk[w].target))]
    /\ wk' = [wk EXCEPT ![w].pc = "lookup",
                        ![w].path = Some(NewF77Path(wk[w].target))]
    /\ UNCHANGED <<contents, files, includes, found_includes, last, hist, drv>>

\* try: nodes = node.found_includes[f77path]   except KeyError:
WLookup(w) ==
    /\ wk[w].pc = "lookup"
    /\ wk' = IF CacheHit(RaceNode, PathOf(w))
             THEN [wk EXCEPT ![w].pc = "return", ![w].hit = TRUE,
                             ![w].nodes = found_includes[RaceNode][PathOf(w)]]
             ELSE [wk EXCEPT ![w].pc = "rexists"]
    /\ UNCHANGED <<contents, files, includes, found_includes, f77path, last, hist, drv>>

\* if node.rexists():
WExists(w) ==
    /\ wk[w].pc = "rexists"
    /\ wk' = [wk EXCEPT ![w].pc = IF rexists(RaceNode) THEN "includes" ELSE "store"]
    /\ UNCHANGED <<contents, files, includes, found_includes, f77path, last, hist, drv>>

\* if node.includes != None: includes = node.includes
\* else: includes = include_re.findall(node.get_contents())
WReadIncludes(w) ==
    /\ wk[w].pc = "includes"
    /\ wk' = IF includes[RaceNode] # None
             THEN [wk EXCEPT ![w].pc = "loop", ![w].incs = includes[RaceNode][1]]
             ELSE [wk EXCEPT ![w].pc = "setincludes",
                             ![w].incs = include_re_findall(get_contents(RaceNode))]
    /\ UNCHANGED <<contents, files, includes, found_includes, f77path, last, hist, drv>>

\* node.includes = includes
WSetIncludes(w) ==
    /\ wk[w].pc = "setincludes"
    /\ includes' = [includes EXCEPT ![RaceNode] = Some(wk[w].incs)]
    /\ wk' = [wk EXCEPT ![w].pc = "loop"]
    /\ UNCHANGED <<contents, files, found_includes, f77path, last, hist, drv>>

\* one turn of `for include in includes`: find_file, then nodes.append(n)
\* or the warning; the loop is left after the last reference
WLoop(w) ==
    /\ wk[w].pc = "loop"
    /\ wk' = IF wk[w].i > Len(wk[w].incs)
             THEN [wk EXCEPT ![w].pc = "store"]
             ELSE LET include == wk[w].incs[wk[w].i]
                      n == find_file(include, SearchDirs(RaceNode, PathOf(w)))
                  IN IF n # None
                     THEN [wk EXCEPT ![w].i = @ + 1,
                                     ![w].nodes = Append(LoopList(w), n[1])]
                     ELSE [wk EXCEPT ![w].i = @ + 1,
                                     ![w].warnings =
                                         Append(@, [include |-> include, from |-> RaceNode])]
    /\ UNCHANGED <<contents, files, includes, found_includes, f77path, last, hist, drv>>

\* node.found_includes[f77path] = nodes
WStore(w) ==
    /\ wk[w].pc = "store"
    /\ found_includes' = [found_includes EXCEPT ![RaceNode] =
                             (PathOf(w) :> wk[w].nodes) @@ found_includes[RaceNode]]
    /\ wk' = [wk EXCEPT ![w].pc = "return"]
    /\ UNCHANGED <<contents, files, includes, f77path, last, hist, drv>>

\* return st(nodes, normalize)
WReturn(w) ==
    /\ wk[w].pc = "return"
    /\ wk' = [wk EXCEPT ![w].pc = "done", ![w].ret = Some(st(wk[w].nodes))]
    /\ UNCHANGED <<contents, files, includes, found_includes, f77path, last, hist, drv>>

\* the targets of the two calls: the same target, or two targets whose
\* F77PATH is the same directory list
RaceTargets == {<<"t1", "t1">>, <<"t1", "t2">>, <<"t3", "t3">>}

\* two workers enter scan for the same node, which has nothing cached; the
\* source and the include files are as some build left them, and stay so
InitRace ==
    /\ contents \in [Sources -> {None} \cup {Some(text) : text \in Texts}]
    /\ files \in SUBSET IncFiles
    /\ includes = [n \in Sources |-> None]
    /\ found_includes = [n \in Sources |-> <<>>]
    /\ f77path = [t \in Targets |-> None]
    /\ last = NoCall
    /\ hist = [n \in Sources |-> <<>>]
    /\ drv = Idle
    /\ \E ts \in RaceTargets : wk = [w \in Workers |-> Entered(ts[w])]

NextRace ==
    \E w \in Workers :
        \/ WHasAttr(w)
        \/ WSetPath(w)
        \/ WLookup(w)
        \/ WExists(w)
        \/ WReadIncludes(w)
        \/ WSetIncludes(w)
        \/ WLoop(w)
        \/ WStore(w)
        \/ WReturn(w)

SpecRace == InitRace /\ [][NextRace]_vars

----------------------------------------------------------------------------

Init ==
    /\ contents = [n \in Sources |-> None]
    /\ files = {}
    /\ includes = [n \in Sources |-> None]
    /\ found_includes = [n \in Sources |-> <<>>]
    /\ f77path = [t \in Targets |-> None]
    /\ last = NoCall
    /\ hist = [n \in Sources |-> <<>>]
    /\ drv = Idle
    /\ wk = NoWorkers

Next ==
    \/ \E n \in Sources, t \in Targets : Scan(n, t) /\ UNCHANGED <<drv, wk>>
    \/ \E n \in Sources, text \in Texts : Build(n, text) /\ UNCHANGED <<drv, wk>>
    \/ \E f \in IncFiles : CreateFile(f) /\ UNCHANGED <<drv, wk>>

Spec == Init /\ [][Next]_vars

----------------------------------------------------------------------------
(* Vocabulary of the properties, stated on the file system itself *)

Scanned == last.kind = "scan"

Range(s) == {s[i] : i \in DOMAIN s}
Count(s, x) == Cardinality({i \in DOMAIN s : s[i] = x})
SameBag(s, t) == \A x \in Range(s) \cup Range(t) : Count(s, x) = Count(t, x)

\* the arguments of the INCLUDE statements of a text, in order
IncludeArgs(text) ==
    LET sel == SelectSeq(text, LAMBDA l : l.kw = "INCLUDE")
    IN [i \in 1..Len(sel) |-> sel[i].arg]

\* the directories a quoted reference is looked up in, in order
Searched(node, t) == <<node.dir>> \o EnvPath(t)

Holds(ref, d) == File(d, ref) \in files
Resolvable(ref, D) == \E i \in DOMAIN D : Holds(ref, D[i])
FirstIdx(ref, D) ==
    CHOOSE i \in DOMAIN D : Holds(ref, D[i]) /\ \A j \in 1..(i - 1) : ~Holds(ref, D[j])
FirstMatch(ref, D) == File(D[FirstIdx(ref, D)], ref)

\* the nodes a list of references resolves to, in the order of the references
Expected(refs, D) ==
    LET ok == SelectSeq(refs, LAMBDA r : Resolvable(r, D))
    IN [i \in 1..Len(ok) |-> FirstMatch(ok[i], D)]

\* the references of a list that no searched directory holds
Unresolved(refs, D) == SelectSeq(refs, LAMBDA r : ~Resolvable(r, D))

\* the order of the normalized path strings
KeyLE(a, b) == ~PathLess(normalize(b), normalize(a))

Swap(s, i, j) ==
    [k \in DOMAIN s |-> IF k = i THEN s[j] ELSE IF k = j THEN s[i] ELSE s[k]]

\* the node was scanned under another directory list since its contents
\* last changed
ScannedSinceUnderOtherPath ==
    \E q \in DOMAIN hist[last.node] :
        q # EnvPath(last.target) /\ hist[last.node][q].state = "fresh"

\* what the most recent scan was called with
LastD == Searched(last.node, last.target)
LastText == get_contents(last.node)
LastCached == found_includes[last.node][last.path]

----------------------------------------------------------------------------
(* The properties *)

C3_NeverMissesDependency ==
    (Scanned /\ last.existed) =>
        \A r \in Range(IncludeArgs(LastText)) :
            Resolvable(r, LastD) => FirstMatch(r, LastD) \in Range(last.result)

\* C4 (as claimed): the returned list holds no node twice.
C4_NoDuplicates ==
    Scanned => \A i, j \in DOMAIN last.result :
                   i # j => last.result[i] # last.result[j]

\* C4 (amended): the returned list holds each node as often as the cached
\* list does, and a resolving scan finds a node once for every raw reference
\* that resolves to it; nothing is removed.
C4_OncePerReference ==
    Scanned =>
        /\ \A f \in IncFiles : Count(last.result, f) = Count(LastCached, f)
        /\ (~last.hit /\ last.existed) =>
               LET refs == includes[last.node][1]
               IN \A f \in IncFiles :
                      Count(last.result, f) =
                          Cardinality({i \in DOMAIN refs :
                                          /\ Resolvable(refs[i], LastD)
                                          /\ FirstMatch(refs[i], LastD) = f})

\* C4 witness: a resolving scan whose result holds the same node twice
C4_Witness ==
    /\ Scanned
    /\ ~last.hit
    /\ Len(last.result) = 2
    /\ last.result[1] = last.result[2]

\* C5: on a miss and on a hit alike, the returned list is a permutation of
\* the cached list in non-decreasing order of the normalized path, and it is
\* the same whatever the order of the cached list.
C5_SortedPermutation ==
    Scanned =>
        /\ SameBag(last.result, LastCached)
        /\ \A i, j \in DOMAIN last.result :
               i < j => KeyLE(last.result[i], last.result[j])
        /\ \A i, j \in DOMAIN LastCached : st(Swap(LastCached, i, j)) = last.result

\* C5 witness: two nodes returned in another order than they were found in
C5_Witness ==
    /\ Scanned
    /\ Len(last.result) = 2
    /\ last.result[1] # last.result[2]
    /\ last.result # LastCached

\* C6: a resolving scan returns, for each raw reference some searched
\* directory holds, the file in the first such directory, the directory of
\* the node first and F77PATH after it in its order, and the file of no
\* other directory.
C6_FirstDirectoryWins ==
    (Scanned /\ ~last.hit /\ last.existed) =>
        \A r \in Range(includes[last.node][1]) :
            Resolvable(r, LastD) =>
                /\ FirstMatch(r, LastD) \in Range(last.result)
                /\ \A j \in DOMAIN LastD :
                       j # FirstIdx(r, LastD) => File(LastD[j], r) \notin Range(last.result)

\* C6 witness: a resolving scan of a reference that two directories hold
C6_Witness ==
    /\ Scanned
    /\ ~last.hit
    /\ last.existed
    /\ \E r \in Range(includes[last.node][1]) :
           Cardinality({j \in DOMAIN LastD : Holds(r, LastD[j])}) >= 2

\* C7: a resolving scan warns once, naming reference and node, for each raw
\* reference no searched directory holds, and still returns the node of
\* every reference that resolves.
C7_UnresolvedWarned ==
    (Scanned /\ ~last.hit /\ last.existed) =>
        LET refs == includes[last.node][1]
            miss == Unresolved(refs, LastD)
        IN /\ last.warnings =
                  [i \in 1..Len(miss) |-> [include |-> miss[i], from |-> last.node]]
           /\ SameBag(last.result, Expected(refs, LastD))

\* C7 witness: one reference resolves, another does not
C7_Witness ==
    /\ Scanned
    /\ ~last.hit
    /\ Len(last.warnings) = 1
    /\ Len(last.result) = 1
    /\ last.warnings[1].include # last.result[1].name

\* the case of C8: an existing node is scanned under a search path not
\* scanned since its contents last changed, after a scan under another path
C8_Precondition ==
    /\ Scanned
    /\ last.existed
    /\ last.prev.state # "fresh"
    /\ \E q \in DOMAIN hist[last.node] :
           /\ q # EnvPath(last.target)
           /\ hist[last.node][q].state = "fresh"
           /\ ~hist[last.node][q].absent

\* C8: a scan under a search path not scanned since the contents last
\* changed, of a node scanned under another path since then, does not read
\* the contents: it keeps node.includes and resolves them against the new
\* path.
C8_PathChangeReusesIncludes ==
    C8_Precondition =>
        /\ ~last.hit
        /\ ~last.read
        /\ last.preIncludes # None
        /\ includes[last.node] = last.preIncludes
        /\ LastCached = Expected(last.preIncludes[1], LastD)

\* C8 witness: the two search paths give different dependencies
C8_Witness ==
    /\ C8_Precondition
    /\ \E q \in DOMAIN hist[last.node] :
           /\ q # EnvPath(last.target)
           /\ hist[last.node][q].state = "fresh"
           /\ hist[last.node][q].result # last.result

\* C9: the key of node.found_includes is the configured directory list, in
\* its order: a scan is a hit exactly when the node was scanned under an
\* equal list, by whichever target, since its contents last changed.
C9_KeyIsOrderedPath ==
    Scanned =>
        /\ last.path = EnvPath(last.target)
        /\ last.hit <=> (last.prev.state = "fresh")

\* C9 witness: a hit on the entry another target made, while the same
\* directories in the other order have an entry of their own
C9_Witness ==
    /\ Scanned
    /\ last.hit
    /\ last.prev.by # last.target
    /\ \E q \in DOMAIN found_includes[last.node] :
           /\ q # last.path
           /\ Range(q) = Range(last.path)
           /\ found_includes[last.node][q] # LastCached

\* C10: a scan of a node scanned under the same search path since its
\* contents last changed returns the list that scan returned and leaves
\* node.includes and node.found_includes as they were.
C10_SecondScanSame ==
    (Scanned /\ last.prev.state = "fresh") =>
        /\ last.result = last.prev.result
        /\ includes[last.node] = last.preIncludes
        /\ found_includes[last.node] = last.preFound

\* C10 witness: the second scan returns two nodes
C10_Witness ==
    /\ Scanned
    /\ last.prev.state = "fresh"
    /\ last.existed
    /\ Len(last.result) = 2

\* the case of C11: no frame of a request in progress repeats a node, so the
\* nesting is bounded by the number of nodes; a finished request holds the
\* node of every resolvable INCLUDE reference of its root
C11_Bounded ==
    /\ (drv.phase = "running") =>
           /\ Len(drv.stack) <= Cardinality(AllNodes)
           /\ \A i, j \in DOMAIN drv.stack :
                  i # j => drv.stack[i].node # drv.stack[j].node
    /\ (drv.phase = "done" /\ rexists(drv.root)) =>
           LET D == Searched(drv.root, drv.target)
           IN \A r \in Range(IncludeArgs(get_contents(drv.root))) :
                  Resolvable(r, D) => FirstMatch(r, D) \in drv.deps

\* a request in progress can always take its next step: the guard of Return,
\* of Revisit or of Descend holds (Scan itself is defined for every node)
C11_Progress ==
    (drv.phase = "running") =>
        /\ drv.stack # <<>>
        /\ \/ Top.kids = <<>>
           \/ OnPath(Head(Top.kids))
           \/ Len(drv.stack) < MaxDepth

\* the work a request has left: the nodes still to visit of each frame,
\* weighted by the depth of the frame
RECURSIVE Power(_, _)
Power(b, e) == IF e = 0 THEN 1 ELSE b * Power(b, e - 1)

RECURSIVE RankFrom(_, _)
RankFrom(stack, i) ==
    IF i > Len(stack) THEN 0
    ELSE (Len(stack[i].kids) + 1) * Power(MaxIncludes + 2, MaxDepth - i)
         + RankFrom(stack, i + 1)

Rank(d) == IF d.phase = "running" THEN RankFrom(d.stack, 1) ELSE 0

\* C11: every scan request terminates, also on an include cycle (A includes
\* B, B includes A): it never nests deeper than the number of nodes, it can
\* always go on, each of its steps leaves less work, the revisit raises no
\* error, and it ends with a finite dependency set that holds the nodes its
\* root includes.
C11_CycleSafe ==
    /\ [](C11_Bounded /\ C11_Progress)
    /\ [][(drv.phase = "running" /\ drv' # drv) => Rank(drv') < Rank(drv)]_vars

\* C11 witness: a finished request for a.inc, which includes B.inc, which
\* includes a.inc again: the revisit was cut and both are dependencies
C11_Witness ==
    /\ drv.phase = "done"
    /\ drv.root = File("d1", "a.inc")
    /\ drv.cut
    /\ File("d1", "B.inc") \in drv.deps
    /\ drv.root \in drv.deps
    /\ "B.inc" \in Range(IncludeArgs(get_contents(drv.root)))
    /\ "a.inc" \in Range(IncludeArgs(get_contents(File("d1", "B.inc"))))

----------------------------------------------------------------------------
(* C12: two workers in scan at once *)

\* what one sequential scan of the uncached node stores and returns
SeqIncludes ==
    IF rexists(RaceNode) THEN Some(include_re_findall(get_contents(RaceNode)))
    ELSE None
SeqNodes(path) ==
    IF rexists(RaceNode)
    THEN FoundNodes(include_re_findall(get_contents(RaceNode)), SearchDirs(RaceNode, path))
    ELSE <<>>

Racing == wk # NoWorkers
BothDone == Racing /\ \A w \in Workers : wk[w].pc = "done"

\* C12: when two workers scan the same uncached node with the same search
\* path and the storage does not change, then under every interleaving of
\* their reads and assignments both return the same dependency list, the
\* list of a sequential scan, and node.includes and node.found_includes[path]
\* end as a sequential scan stores them; no cache slot ever holds a partial
\* list on the way.
C12_RaceIdempotent ==
    Racing =>
        /\ includes[RaceNode] # None => includes[RaceNode] = SeqIncludes
        /\ \A p \in DOMAIN found_includes[RaceNode] :
               found_includes[RaceNode][p] = SeqNodes(p)
        /\ BothDone =>
               /\ PathOf(1) = PathOf(2)
               /\ wk[1].ret = wk[2].ret
               /\ wk[1].ret = Some(st(SeqNodes(PathOf(1))))
               /\ includes[RaceNode] = SeqIncludes
               /\ found_includes[RaceNode] = (PathOf(1) :> SeqNodes(PathOf(1)))

\* C12 witness: both workers missed the cache, each resolved the two
\* references of the source itself and stored its list, and both are done
C12_Witness ==
    /\ BothDone
    /\ \A w \in Workers : ~wk[w].hit /\ wk[w].i = 3
    /\ wk[1].target # wk[2].target
    /\ Len(wk[1].ret[1]) = 2
    /\ wk[1].ret[1] # wk[1].nodes

====
